---- MODULE Spec2Model ----
(***************************************************************************)
(* A model of the postproxy-mcp tool handlers: the status reconciliation   *)
(* of post.status and history.list, the target resolution of post.publish, *)
(* and post.retry, over an upstream post store.  The repository holds      *)
(* several generations of the same handlers side by side; each generation  *)
(* that a property is about is modelled as its own operator, named after   *)
(* the file it lives in.                                                   *)
(***************************************************************************)
EXTENDS Integers, Sequences, FiniteSets, TLC

VARIABLES
    posts,      \* the upstream post store: job id -> upstream post record
    call,       \* the latest tool invocation: the tool and its arguments
    requests,   \* the upstream requests of the latest tool invocation, in order
    result      \* what the latest tool invocation returned or threw

vars == <<posts, call, requests, result>>

----------------------------------------------------------------------------
(* Bounds of the model.                                                    *)

MaxPlatforms == 2   \* longest platform outcome list of an upstream record
MaxJobs == 2        \* job ids the upstream can hand out
MaxTargets == 2     \* longest target list of a post.publish call

JobIds == 1..MaxJobs

\* What a JSON field reads as when the object does not carry it.
Undefined == "undefined"

Has(obj, field) == field \in DOMAIN obj

Get(obj, field) == IF Has(obj, field) THEN obj[field] ELSE Undefined

----------------------------------------------------------------------------
(* The error codes and the HTTP client's failure mapping.                  *)

ErrorCodes ==
    {"AUTH_MISSING", "AUTH_INVALID", "VALIDATION_ERROR", "TARGET_NOT_FOUND",
     "PUBLISH_FAILED", "PLATFORM_ERROR", "API_ERROR"}

\* How one upstream call can fail: an HTTP status, a timeout, a transport error.
Failures == {"401", "404", "422", "500", "timeout", "network"}

\* PostProxyClient.request: the code of the MCPError it throws.
RequestErrorCode(failure) ==
    IF failure = "401" THEN "AUTH_INVALID"
    ELSE IF failure = "404" THEN "TARGET_NOT_FOUND"
    ELSE IF failure = "422" THEN "VALIDATION_ERROR"
    ELSE "API_ERROR"

----------------------------------------------------------------------------
(* Upstream records.                                                       *)

\* The networks of the platform outcome rows, by position in the list.
Networks == <<"twitter", "linkedin", "instagram", "facebook">>

PlatformStatuses == {"pending", "processing", "published", "failed", "deleted"}

\* The top-level statuses: the upstream vocabulary and one outside it.
PostStatuses ==
    {"draft", "pending", "processing", "processed", "scheduled", "archived"}

\* The outcome rows of one record come in the legacy shape {network, status}
\* or in the current shape {platform, status}.
OutcomeRow(shape, i, st) ==
    IF shape = "legacy" THEN [network |-> Networks[i], status |-> st]
    ELSE [platform |-> Networks[i], status |-> st]

\* Every outcome list of at most MaxPlatforms rows, one row per network.
OutcomeLists ==
    UNION {{[i \in 1..n |-> OutcomeRow(shape, i, sts[i])] :
                sts \in [1..n -> PlatformStatuses], shape \in {"legacy", "current"}} :
           n \in 0..MaxPlatforms}

\* Every upstream post record the reconcilers are run on: status, draft and
\* platforms may each be missing.
StatusPosts ==
    LET Core == [body : {<<"a">>}] \cup [body : {<<"a">>}, status : PostStatuses]
        WithDraft == Core \cup {c @@ ("draft" :> d) : c \in Core, d \in BOOLEAN}
    IN  WithDraft \cup
        {w @@ ("platforms" :> l) : w \in WithDraft, l \in OutcomeLists}

Every(list, P(_)) == \A i \in 1..Len(list) : P(list[i])

Some(list, P(_)) == \E i \in 1..Len(list) : P(list[i])

----------------------------------------------------------------------------
(* The status reconcilers.                                                 *)

\* handlePostStatus of unnamed/part_003: the per-platform list it emits.
platforms_Part003(postDetails) ==
    IF Has(postDetails, "platforms")
    THEN [i \in 1..Len(postDetails.platforms) |->
            [platform |-> Get(postDetails.platforms[i], "platform"),
             status |-> postDetails.platforms[i].status]]
    ELSE <<>>

\* A reconciler that reads the last row of the processed case as "some
\* published, some failed": any other finished mix falls through to pending.
overallStatus_PublishedFailedOnly(postDetails) ==
    LET platforms == platforms_Part003(postDetails)
        allPublished == Every(platforms, LAMBDA p : p.status = "published")
        allFailed == Every(platforms, LAMBDA p : p.status = "failed")
        anyPending == Some(platforms, LAMBDA p : p.status = "pending" \/ p.status = "processing")
        publishedAndFailed == Every(platforms, LAMBDA p : p.status \in {"published", "failed"})
    IN  IF Get(postDetails, "status") = "draft"
            \/ (Has(postDetails, "draft") /\ postDetails.draft = TRUE)
        THEN "draft"
        ELSE IF Get(postDetails, "status") = "scheduled" THEN "pending"
        ELSE IF Get(postDetails, "status") = "processing" THEN "processing"
        ELSE IF Get(postDetails, "status") = "processed"
        THEN IF Len(platforms) = 0 THEN "pending"
             ELSE IF anyPending THEN "processing"
             ELSE IF allPublished THEN "complete"
             ELSE IF allFailed THEN "failed"
             ELSE IF publishedAndFailed THEN "complete"
             ELSE "pending"
        ELSE "pending"

\* handlePostStatus of unnamed/part_003: overallStatus.
overallStatus_Part003(postDetails) ==
    LET platforms == platforms_Part003(postDetails)
        allPublished == Every(platforms, LAMBDA p : p.status = "published")
        allFailed == Every(platforms, LAMBDA p : p.status = "failed")
        anyPending == Some(platforms, LAMBDA p : p.status = "pending" \/ p.status = "processing")
    IN  IF Get(postDetails, "status") = "draft"
            \/ (Has(postDetails, "draft") /\ postDetails.draft = TRUE)
        THEN "draft"
        ELSE IF Get(postDetails, "status") = "scheduled" THEN "pending"
        ELSE IF Get(postDetails, "status") = "processing" THEN "processing"
        ELSE IF Get(postDetails, "status") = "processed"
        THEN IF Len(platforms) = 0 THEN "pending"
             ELSE IF anyPending THEN "processing"
             ELSE IF allPublished THEN "complete"
             ELSE IF allFailed THEN "failed"
             ELSE "complete"
        ELSE IF Get(postDetails, "status") = "pending" THEN "pending"
        ELSE "pending"

\* handlePostStatus of src/tools/post.ts: the per-platform list it emits.
platforms_PostTs(postDetails) ==
    IF Has(postDetails, "platforms")
    THEN [i \in 1..Len(postDetails.platforms) |->
            [platform |-> Get(postDetails.platforms[i], "network"),
             status |-> postDetails.platforms[i].status]]
    ELSE <<>>

\* handlePostStatus of src/tools/post.ts: overallStatus.
overallStatus_PostTs(postDetails) ==
    LET platforms == platforms_PostTs(postDetails)
        allPublished == Every(platforms, LAMBDA p : p.status = "published")
        allFailed == Every(platforms, LAMBDA p : p.status = "failed")
        anyPending == Some(platforms, LAMBDA p : p.status = "pending")
    IN  IF Get(postDetails, "status") = "scheduled" THEN "pending"
        ELSE IF Get(postDetails, "status") = "processed"
        THEN IF Len(platforms) = 0 THEN "pending"
             ELSE IF allPublished THEN "complete"
             ELSE IF allFailed THEN "failed"
             ELSE IF anyPending THEN "processing"
             ELSE "processing"
        ELSE IF Get(postDetails, "status") = "pending" THEN "pending"
        ELSE "pending"

\* handleHistoryList of src/tools/history.ts: overallStatus of one listed post.
overallStatus_History(post) ==
    LET rows == IF Has(post, "platforms") THEN post.platforms ELSE <<>>
        allPublished == Every(rows, LAMBDA p : p.status = "published")
        allFailed == Every(rows, LAMBDA p : p.status = "failed")
        anyPending == Some(rows, LAMBDA p : p.status = "pending" \/ p.status = "processing")
    IN  IF Get(post, "status") = "draft" \/ (Has(post, "draft") /\ post.draft = TRUE)
        THEN "draft"
        ELSE IF Get(post, "status") = "scheduled" THEN "pending"
        ELSE IF Get(post, "status") = "processing" THEN "processing"
        ELSE IF Get(post, "status") = "processed"
        THEN IF Has(post, "platforms") /\ Len(post.platforms) > 0
             THEN IF anyPending THEN "processing"
                  ELSE IF allPublished THEN "complete"
                  ELSE IF allFailed THEN "failed"
                  ELSE "complete"
             ELSE "pending"
        ELSE IF Get(post, "status") = "pending" THEN "pending"
        ELSE "unknown"

----------------------------------------------------------------------------
(* The idempotency key.                                                    *)

\* Every string a target list can hold, in the order Array.prototype.sort
\* puts them (by UTF-16 code unit).
TargetOrder == <<"linkedin", "nope", "p1", "p2", "p3", "twitter">>

Rank(t) == CHOOSE i \in 1..Len(TargetOrder) : TargetOrder[i] = t

RECURSIVE Insert(_, _)
Insert(sorted, t) ==
    IF sorted = <<>> THEN <<t>>
    ELSE IF Rank(t) < Rank(Head(sorted)) THEN <<t>> \o sorted
    ELSE <<Head(sorted)>> \o Insert(Tail(sorted), t)

\* [...targets].sort()
RECURSIVE Sort(_)
Sort(targets) ==
    IF targets = <<>> THEN <<>> ELSE Insert(Sort(Tail(targets)), Head(targets))

\* content.trim(), on a string held as a sequence of characters
RECURSIVE TrimStart(_)
TrimStart(c) == IF c # <<>> /\ Head(c) = " " THEN TrimStart(Tail(c)) ELSE c

RECURSIVE TrimEnd(_)
TrimEnd(c) ==
    IF c # <<>> /\ c[Len(c)] = " " THEN TrimEnd(SubSeq(c, 1, Len(c) - 1)) ELSE c

Trim(c) == TrimEnd(TrimStart(c))


\* schedule || "": an absent schedule and the empty string both become "".
normalizedSchedule(schedule) == IF schedule = Undefined THEN "" ELSE schedule

\* A key derived from the arguments as they come, with no normalisation.
generateIdempotencyKey_Raw(content, targets, schedule) ==
    [kind |-> "sha256", content |-> content, targets |-> targets,
     schedule |-> schedule]

\* A key derived from the content and the targets alone.
generateIdempotencyKey_NoSchedule(content, targets, schedule) ==
    [kind |-> "sha256", content |-> Trim(content), targets |-> Sort(targets),
     schedule |-> ""]

\* generateIdempotencyKey: the SHA-256 digest of the canonical JSON string,
\* held as the data that string encodes (the digest is taken to be injective).
\* An absent schedule is "".
generateIdempotencyKey(content, targets, schedule) ==
    [kind |-> "sha256", content |-> Trim(content), targets |-> Sort(targets),
     schedule |-> normalizedSchedule(schedule)]

\* A key the caller supplies.
CallerKey(k) == [kind |-> "caller", content |-> <<>>, targets |-> <<k>>, schedule |-> ""]

NoKey == [kind |-> "none", content |-> <<>>, targets |-> <<>>, schedule |-> ""]

----------------------------------------------------------------------------
(* Requests, responses and results.                                        *)

\* A job id argument: 0 stands for a missing or empty job_id.
NoJobId == 0

JobInputs == JobIds \cup {NoJobId}

\* One upstream request with the response it got ("ok" or a failure).
Request(method, path, job, resp) ==
    [method |-> method, path |-> path, job |-> job, group |-> "",
     profiles |-> <<>>, content |-> <<>>, schedule |-> "", media |-> <<>>,
     key |-> NoKey, draft |-> Undefined, resp |-> resp]

\* The responses the upstream can give to a request about job j.
PostResponses(j) == IF j \in DOMAIN posts THEN {"ok"} \cup Failures ELSE Failures

\* A tool invocation: the tool's name and the arguments it was given.
Call(tool, args) == [tool |-> tool, args |-> args]

NoCall == Call("none", [none |-> TRUE])

NoResult ==
    [tool |-> "none", ok |-> TRUE, code |-> "", message |-> "", data |-> [none |-> TRUE]]

Success(tool, data) ==
    [tool |-> tool, ok |-> TRUE, code |-> "", message |-> "", data |-> data]

\* createError(code, message): the MCPError a handler throws.
createError(tool, code, message) ==
    [tool |-> tool, ok |-> FALSE, code |-> code, message |-> message,
     data |-> [none |-> TRUE]]

----------------------------------------------------------------------------
(* post.status and history.list.                                           *)

\* handlePostStatus of unnamed/part_003, given the response to its GET.
handlePostStatus_Part003(job_id, resp) ==
    IF job_id = NoJobId
    THEN createError("post.status", "VALIDATION_ERROR", "job_id is required")
    ELSE IF resp # "ok"
    THEN createError("post.status", "API_ERROR", "Failed to get post status")
    ELSE LET postDetails == posts[job_id]
         IN  Success("post.status",
                 [job_id |-> job_id,
                  overall_status |-> overallStatus_Part003(postDetails),
                  draft |-> Has(postDetails, "draft") /\ postDetails.draft,
                  status |-> Get(postDetails, "status"),
                  platforms |-> platforms_Part003(postDetails)])

\* handlePostStatus of src/tools/post.ts, given the response to its GET.
handlePostStatus_PostTs(job_id, resp) ==
    IF job_id = NoJobId
    THEN createError("post.status", "VALIDATION_ERROR", "job_id is required")
    ELSE IF resp # "ok"
    THEN createError("post.status", "API_ERROR", "Failed to get post status")
    ELSE LET postDetails == posts[job_id]
         IN  Success("post.status",
                 [job_id |-> job_id,
                  overall_status |-> overallStatus_PostTs(postDetails),
                  platforms |-> platforms_PostTs(postDetails)])

\* The requests either handlePostStatus issues.
StatusRequests(job_id, resp) ==
    IF job_id = NoJobId THEN <<>>
    ELSE <<Request("GET", "/posts/{id}", job_id, resp)>>

PostStatus_Part003(job_id) ==
    \E resp \in PostResponses(job_id) :
        /\ call' = Call("post.status:part_003", [job_id |-> job_id])
        /\ requests' = StatusRequests(job_id, resp)
        /\ result' = [handlePostStatus_Part003(job_id, resp) EXCEPT !.tool = "post.status:part_003"]
        /\ UNCHANGED posts

PostStatus_PostTs(job_id) ==
    \E resp \in PostResponses(job_id) :
        /\ call' = Call("post.status:post.ts", [job_id |-> job_id])
        /\ requests' = StatusRequests(job_id, resp)
        /\ result' = [handlePostStatus_PostTs(job_id, resp) EXCEPT !.tool = "post.status:post.ts"]
        /\ UNCHANGED posts

\* The records history.list is run on: text in content or in body.
HistoryPosts ==
    [content : {<<"a">>}, status : {"draft", "pending", "processed"}]
        \cup [body : {<<"b">>}, status : {"pending"}]

\* history.list's default limit and the length of a content preview.
DefaultLimit == 10

PreviewLength == 100

\* The arguments of history.list: no limit, or a limit from 0 upwards.
LimitInputs == {[none |-> TRUE]} \cup {[limit |-> n] : n \in 0..MaxJobs}

\* post.body || post.content || ""
ContentOf(post) ==
    IF Has(post, "body") /\ post.body # <<>> THEN post.body
    ELSE IF Has(post, "content") /\ post.content # <<>> THEN post.content
    ELSE <<>>

\* content.substring(0, 100) + (content.length > 100 ? "..." : "")
Preview(content) ==
    IF Len(content) > PreviewLength
    THEN SubSeq(content, 1, PreviewLength) \o <<".", ".", ".">>
    ELSE content

\* GET /posts?per_page=n: the upstream's posts in upstream order, n at most.
RECURSIVE ListedJobs(_, _)
ListedJobs(from, n) ==
    IF n = 0 \/ from > MaxJobs THEN <<>>
    ELSE IF from \in DOMAIN posts THEN <<from>> \o ListedJobs(from + 1, n - 1)
    ELSE ListedJobs(from + 1, n)

\* handleHistoryList of src/tools/history.ts, given the response to its GET.
handleHistoryList(args, resp) ==
    LET limit == IF Has(args, "limit") /\ args.limit # 0 THEN args.limit ELSE DefaultLimit
        listed == ListedJobs(1, limit)
    IN  IF resp # "ok"
        THEN createError("history.list", "API_ERROR", "Failed to list history")
        ELSE Success("history.list",
                 [jobs |-> [i \in 1..Len(listed) |->
                     LET post == posts[listed[i]]
                     IN  [job_id |-> listed[i],
                          content_preview |-> Preview(ContentOf(post)),
                          overall_status |-> overallStatus_History(post),
                          draft |-> Has(post, "draft") /\ post.draft,
                          platforms_count |->
                              IF Has(post, "platforms") THEN Len(post.platforms) ELSE 0]]])

HistoryList(args) ==
    \E resp \in {"ok"} \cup Failures :
        /\ call' = Call("history.list", args)
        /\ requests' = <<Request("GET", "/posts", NoJobId, resp)>>
        /\ result' = handleHistoryList(args, resp)
        /\ UNCHANGED posts

\* history.list against an upstream holding any number of posts up to MaxJobs.
InitHistory ==
    /\ posts \in UNION {[held -> HistoryPosts] : held \in SUBSET JobIds}
    /\ call = NoCall
    /\ requests = <<>>
    /\ result = NoResult

NextHistory == \E args \in LimitInputs : HistoryList(args)

SpecHistory == InitHistory /\ [][NextHistory]_vars

----------------------------------------------------------------------------
(* The reconcilers run on every upstream record.                           *)

InitStatus ==
    /\ posts \in {(1 :> p) : p \in StatusPosts}
    /\ call = NoCall
    /\ requests = <<>>
    /\ result = NoResult

NextStatus ==
    \/ \E j \in JobInputs : PostStatus_Part003(j)
    \/ \E j \in JobInputs : PostStatus_PostTs(j)
    \/ \E n \in LimitInputs : HistoryList(n)

SpecStatus == InitStatus /\ [][NextStatus]_vars

----------------------------------------------------------------------------
(* The upstream: profile groups, profiles and the creation of posts.       *)

\* The upstream's profile groups and their profiles, in upstream order.
ProfileGroups ==
    << [id |-> "g1", profiles |-> <<[id |-> "p1", network |-> "twitter"]>>],
       [id |-> "g2", profiles |-> <<[id |-> "p2", network |-> "linkedin"],
                                    [id |-> "p3", network |-> "twitter"]>>] >>

AllProfiles ==
    UNION {{ProfileGroups[g].profiles[k] : k \in 1..Len(ProfileGroups[g].profiles)} :
              g \in 1..Len(ProfileGroups)}

PlatformNames == {"twitter", "linkedin"}

\* The network the upstream posts an entry of "profiles" to: a platform name
\* is itself, a profile id is its profile's network.
UpstreamNetwork(entry) ==
    IF entry \in PlatformNames THEN entry
    ELSE IF \E pr \in AllProfiles : pr.id = entry
    THEN (CHOOSE pr \in AllProfiles : pr.id = entry).network
    ELSE Undefined

RECURSIVE Distinct(_)
Distinct(list) ==
    IF list = <<>> THEN <<>>
    ELSE LET front == Distinct(SubSeq(list, 1, Len(list) - 1))
             last == list[Len(list)]
         IN  IF \E i \in 1..Len(front) : front[i] = last THEN front
             ELSE Append(front, last)

\* The field an upstream record carries its text in.
TextFields == {"content", "body"}

\* The record the upstream creates for an accepted POST /posts: one pending
\* outcome row per network posted to.
CreatedPost(req, textField, draft) ==
    LET networks == Distinct([i \in 1..Len(req.profiles) |-> UpstreamNetwork(req.profiles[i])])
    IN  (textField :> req.content) @@
        [status |-> IF draft THEN "draft"
                    ELSE IF req.schedule # "" THEN "scheduled" ELSE "pending",
         draft |-> draft,
         scheduled_at |-> req.schedule,
         key |-> req.key,
         platforms |-> [i \in 1..Len(networks) |->
                          [network |-> networks[i], status |-> "pending"]]]

\* The job id the upstream gives the next post.
FreeJobIds == JobIds \ DOMAIN posts

NextJobId == CHOOSE j \in FreeJobIds : \A k \in FreeJobIds : j <= k

\* The responses the upstream can give to POST /posts: it accepts a request
\* only if it can place every entry of "profiles".
CreateResponses(profiles) ==
    IF \A i \in 1..Len(profiles) : UpstreamNetwork(profiles[i]) # Undefined
    THEN {"ok"} \cup Failures
    ELSE Failures

\* The upstream store after the requests of one invocation, in order.
RECURSIVE Upstream(_, _, _, _)
Upstream(store, reqs, textField, draft) ==
    IF reqs = <<>> THEN store
    ELSE LET r == Head(reqs)
             next ==
                 IF r.resp # "ok" THEN store
                 ELSE IF r.method = "POST" /\ r.path = "/posts"
                 THEN store @@ (r.job :> CreatedPost(r, textField, draft))
                 ELSE IF r.method = "DELETE" /\ r.path = "/posts/{id}"
                 THEN [j \in DOMAIN store \ {r.job} |-> store[j]]
                 ELSE IF r.method = "POST" /\ r.path = "/posts/{id}/publish"
                 THEN [store EXCEPT ![r.job] =
                         [draft |-> FALSE, status |-> "pending"] @@ @]
                 ELSE store
         IN  Upstream(next, Tail(reqs), textField, draft)

----------------------------------------------------------------------------
(* profiles.list, as post.publish and post.retry call it.                  *)

\* The responses to the fetch of one group's profiles; the handler treats
\* every failure of it alike.
GroupResponses == {"ok", "500"}

\* A listing that ends at the first group whose fetch fails.
RECURSIVE allTargets_StopAtFailure(_, _)
allTargets_StopAtFailure(g, groupResps) ==
    IF g > Len(ProfileGroups) \/ groupResps[g] # "ok" THEN <<>>
    ELSE [k \in 1..Len(ProfileGroups[g].profiles) |->
             [id |-> ProfileGroups[g].profiles[k].id,
              platform |-> ProfileGroups[g].profiles[k].network]]
         \o allTargets_StopAtFailure(g + 1, groupResps)

\* The targets of the groups from the g-th on, given each group's response:
\* a group whose fetch fails is skipped.
RECURSIVE allTargets(_, _)
allTargets(g, groupResps) ==
    IF g > Len(ProfileGroups) THEN <<>>
    ELSE LET profiles == ProfileGroups[g].profiles
             mine == IF groupResps[g] = "ok"
                     THEN [k \in 1..Len(profiles) |->
                             [id |-> profiles[k].id, platform |-> profiles[k].network]]
                     ELSE <<>>
         IN  mine \o allTargets(g + 1, groupResps)

GroupRequest(g, resp) ==
    [Request("GET", "/profiles?group_id", NoJobId, resp) EXCEPT !.group = ProfileGroups[g].id]

handleProfilesList(groupsResp, groupResps) ==
    IF groupsResp # "ok"
    THEN [ok |-> FALSE, targets |-> <<>>,
          requests |-> <<Request("GET", "/profile_groups/", NoJobId, groupsResp)>>]
    ELSE [ok |-> TRUE, targets |-> allTargets(1, groupResps),
          requests |-> <<Request("GET", "/profile_groups/", NoJobId, "ok")>>
                       \o [g \in 1..Len(ProfileGroups) |-> GroupRequest(g, groupResps[g])]]

\* Every way a listing can go.
Listings ==
    {handleProfilesList(groupsResp, groupResps) :
        groupsResp \in {"ok"} \cup Failures,
        groupResps \in [1..Len(ProfileGroups) -> GroupResponses]}

\* targetsMap.get(targetId)
HasTarget(targets, id) == \E i \in 1..Len(targets) : targets[i].id = id

TargetOf(targets, id) ==
    targets[CHOOSE i \in 1..Len(targets) :
                /\ targets[i].id = id
                /\ \A k \in (i + 1)..Len(targets) : targets[k].id # id]

----------------------------------------------------------------------------
(* post.publish.                                                           *)

MaxPublished == 1   \* posts that post.publish creates in one behaviour

ContentInputs == {<<>>, <<"a">>}

TargetUniverse == {"p1", "p2", "twitter", "nope"}

TargetLists == UNION {[1..n -> TargetUniverse] : n \in 0..MaxTargets}

ValidSchedule == "2030-01-01T00:00:00Z"

ScheduleInputs == {ValidSchedule, "tomorrow"}

\* ISO8601DateSchema: a parseable date with a "T" in it.
IsISO8601(date) == date = ValidSchedule

\* The argument records of argSet with an optional field added.
WithField(argSet, field, values) == {a @@ (field :> v) : a \in argSet, v \in values}

\* The argument records with and without an optional field.
WithOptional(argSet, field, values) == argSet \cup WithField(argSet, field, values)

\* The calls of post.publish: with and without a schedule, and with at most
\* one of the other optional arguments.
PublishArgs(listField) ==
    LET required == {("content" :> c) @@ (listField :> l) :
                        c \in ContentInputs, l \in TargetLists}
        scheduled == WithOptional(required, "schedule", ScheduleInputs)
    IN  scheduled
            \cup WithField(scheduled, "idempotency_key", {"k1"})
            \cup WithField(scheduled, "require_confirmation", {TRUE})

\* PostPublishSchema.parse(args), with "targets" or "profiles" as the list.
PostPublishSchema(args, listField) ==
    /\ Len(args.content) >= 1
    /\ Len(args[listField]) >= 1
    /\ Has(args, "schedule") => IsISO8601(args.schedule)

ScheduleOf(args) == IF Has(args, "schedule") THEN args.schedule ELSE ""

\* args.idempotency_key || generateIdempotencyKey(content, list, schedule)
idempotencyKey(args, listField) ==
    IF Has(args, "idempotency_key") THEN CallerKey(args.idempotency_key)
    ELSE generateIdempotencyKey(args.content, args[listField], ScheduleOf(args))

\* client.createPost: the POST /posts it sends and the response it gets.
createPost(content, profiles, schedule, key, draft, resp) ==
    [Request("POST", "/posts", IF resp = "ok" THEN NextJobId ELSE NoJobId, resp)
        EXCEPT !.content = content, !.profiles = profiles, !.schedule = schedule,
               !.key = key, !.draft = draft]

\* An invocation ends: its requests have reached the upstream, in order.
Finish(args, reqs, res, draft) ==
    /\ call' = Call(res.tool, args)
    /\ requests' = reqs
    /\ result' = res
    /\ posts' = Upstream(posts, reqs, "content", draft)

\* A handler that never stops for a confirmation.
requireConfirmation_Never(args) == FALSE

\* if (args.require_confirmation)
requireConfirmation(args) ==
    Has(args, "require_confirmation") /\ args.require_confirmation

\* The first target that the target map does not hold.
FirstMissing(targets, list) ==
    CHOOSE i \in 1..Len(list) :
        /\ ~HasTarget(targets, list[i])
        /\ \A k \in 1..(i - 1) : HasTarget(targets, list[k])

Summary(tool, args, listField) ==
    Success(tool, [summary |-> [targets |-> args[listField],
                                content_preview |-> Preview(args.content),
                                media_count |-> 0,
                                schedule_time |-> ScheduleOf(args)]])

\* post.publish of src/tools/post.ts: targets are resolved through the
\* profile list to platform names.
PostPublish_PostTs(args) ==
    LET tool == "post.publish:post.ts" IN
    /\ Cardinality(DOMAIN posts) < MaxPublished
    /\ IF ~PostPublishSchema(args, "targets")
       THEN Finish(args, <<>>, createError(tool, "VALIDATION_ERROR", "Invalid input"), FALSE)
       ELSE IF requireConfirmation(args)
       THEN Finish(args, <<>>, Summary(tool, args, "targets"), FALSE)
       ELSE \E listing \in Listings :
            IF ~listing.ok
            THEN Finish(args, listing.requests,
                        createError(tool, "API_ERROR", "Failed to retrieve profiles"), FALSE)
            ELSE IF \E i \in 1..Len(args.targets) : ~HasTarget(listing.targets, args.targets[i])
            THEN Finish(args, listing.requests,
                        createError(tool, "TARGET_NOT_FOUND",
                                    args.targets[FirstMissing(listing.targets, args.targets)]),
                        FALSE)
            ELSE LET platformNames ==
                         [i \in 1..Len(args.targets) |->
                             TargetOf(listing.targets, args.targets[i]).platform]
                 IN  \E resp \in CreateResponses(platformNames) :
                        LET req == createPost(args.content, platformNames, ScheduleOf(args),
                                              idempotencyKey(args, "targets"), Undefined, resp)
                            reqs == Append(listing.requests, req)
                        IN  IF resp = "ok"
                            THEN Finish(args, reqs,
                                        Success(tool,
                                                [job_id |-> req.job,
                                                 status |-> CreatedPost(req, "content", FALSE).status]),
                                        FALSE)
                            ELSE Finish(args, reqs,
                                        createError(tool, "PUBLISH_FAILED",
                                                    "Failed to publish post"), FALSE)

DraftInputs == BOOLEAN

\* Media items: a URL, a file path, and a string that is neither.
MediaItems == {"https://example.com/a.jpg", "/tmp/a.jpg", "not a url"}

\* isFilePath: the value starts like an absolute, relative or home path.
isFilePath(value) == value \in {"/tmp/a.jpg"}

\* MediaItemSchema: a file path, or a string that new URL() parses.
MediaItemSchema(value) == isFilePath(value) \/ value \in {"https://example.com/a.jpg"}

\* The parameter names and, for the enumerations, the values each platform's
\* strict schema accepts. Twitter accepts no parameter at all.
PlatformParams ==
    [instagram |-> [format |-> {"post", "reel", "story"}],
     facebook  |-> [format |-> {"post", "story"}],
     twitter   |-> [none |-> {}]]

\* A platforms schema that accepts any object.
PlatformParamsSchema_Loose(platforms) == TRUE

\* PlatformParamsSchema: known platforms only, and for each of them known
\* parameters only, with values of their enumerations.
PlatformParamsSchema(platforms) ==
    \A name \in DOMAIN platforms :
        /\ name \in DOMAIN PlatformParams
        /\ \A param \in DOMAIN platforms[name] :
              /\ param \in DOMAIN PlatformParams[name]
              /\ platforms[name][param] \in PlatformParams[name][param]

\* PostPublishSchema of unnamed/part_005: the media items and the platform
\* parameters are validated with the rest.
PostPublishSchema_Part005(args) ==
    /\ PostPublishSchema(args, "profiles")
    /\ Has(args, "media") => \A i \in 1..Len(args.media) : MediaItemSchema(args.media[i])
    /\ Has(args, "platforms") => PlatformParamsSchema(args.platforms)

\* What the upstream answers to a create-post request: the draft flag of the
\* new post (possibly left out of the response) and its status. A request for
\* a draft may be honoured, ignored, or processed at once; without one the
\* post is pending, scheduled or processed at once.
CreateOutcomes(args) ==
    IF Has(args, "draft") /\ args.draft
    THEN [draft : {"true", "false", Undefined}, status : {"draft", "pending", "processed"}]
    ELSE [draft : {"false", Undefined},
          status : {IF Has(args, "schedule") THEN "scheduled" ELSE "pending", "processed"}]

\* The response to a create-post request under an outcome.
CreateResponse(req, outcome) ==
    LET post == [CreatedPost(req, "content", outcome.draft = "true")
                    EXCEPT !.status = outcome.status]
    IN  IF outcome.draft = Undefined
        THEN [f \in DOMAIN post \ {"draft"} |-> post[f]]
        ELSE post

\* A draft check that looks at the draft flag of the response alone.
draftIgnored_FlagOnly(wasDraftRequested, response) ==
    wasDraftRequested /\ ~(Has(response, "draft") /\ response.draft)

\* A draft check that warns whenever a draft was requested.
draftIgnored_Always(wasDraftRequested, response) == wasDraftRequested

\* draftIgnored: a draft was requested and the response does not carry
\* draft true, or the post was processed at once.
draftIgnored(wasDraftRequested, response) ==
    LET isDraftInResponse == Has(response, "draft") /\ response.draft
        wasProcessedImmediately == response.status = "processed" /\ wasDraftRequested
    IN  wasDraftRequested /\ (~isDraftInResponse \/ wasProcessedImmediately)

\* post.publish of unnamed/part_003: "profiles" goes to the upstream as given.
PostPublish_Part003(args) ==
    LET tool == "post.publish:part_003" IN
    /\ Cardinality(DOMAIN posts) < MaxPublished
    /\ IF ~PostPublishSchema_Part005(args)
       THEN Finish(args, <<>>, createError(tool, "VALIDATION_ERROR", "Invalid input"), FALSE)
       ELSE IF requireConfirmation(args)
       THEN Finish(args, <<>>, Summary(tool, args, "profiles"), FALSE)
       ELSE \E resp \in CreateResponses(args.profiles) :
            \E outcome \in (IF resp = "ok" THEN CreateOutcomes(args)
                            ELSE {[draft |-> "false", status |-> "pending"]}) :
               LET draftValue == IF Has(args, "draft")
                                 THEN (IF args.draft THEN "true" ELSE "false")
                                 ELSE Undefined
                   req == [createPost(args.content, args.profiles, ScheduleOf(args),
                                      idempotencyKey(args, "profiles"), draftValue, resp)
                              EXCEPT !.media = IF Has(args, "media") THEN args.media
                                               ELSE <<>>]
                   response == CreateResponse(req, outcome)
                   wasDraftRequested == Has(args, "draft") /\ args.draft
                   responseData == [f \in {"job_id", "status", "scheduled_at"}
                                        \cup (DOMAIN response \cap {"draft"}) |->
                                      IF f = "job_id" THEN req.job ELSE response[f]]
               IN  IF resp = "ok"
                   THEN /\ call' = Call(tool, args)
                        /\ requests' = <<req>>
                        /\ result' = Success(tool,
                                       IF draftIgnored(wasDraftRequested, response)
                                       THEN responseData @@ ("warning" :> "draft ignored")
                                       ELSE responseData)
                        /\ posts' = [Upstream(posts, <<req>>, "content",
                                              outcome.draft = "true")
                                        EXCEPT ![req.job].status = outcome.status]
                   ELSE Finish(args, <<req>>,
                               createError(tool, "PUBLISH_FAILED", "Failed to publish post"),
                               FALSE)

InitEmpty ==
    /\ posts = <<>>
    /\ call = NoCall
    /\ requests = <<>>
    /\ result = NoResult

----------------------------------------------------------------------------
(* post.publish_draft (unnamed/part_003).                                  *)

\* A draft check that lets every post through.
NotADraft_Never(postDetails) == FALSE

\* !postDetails.draft && postDetails.status !== "draft"
NotADraft(postDetails) ==
    /\ ~(Has(postDetails, "draft") /\ postDetails.draft)
    /\ Get(postDetails, "status") # "draft"

\* handlePostPublishDraft: the post is fetched, checked to be a draft and
\* then published. A VALIDATION_ERROR, the handler's own or the client's for
\* a 4xx answer, goes to the caller as it is; any other failure is API_ERROR.
PostPublishDraft(job_id) ==
    LET tool == "post.publish_draft"
        args == [job_id |-> job_id]
        Rethrown(failure) ==
            IF RequestErrorCode(failure) = "VALIDATION_ERROR"
            THEN createError(tool, "VALIDATION_ERROR", failure)
            ELSE createError(tool, "API_ERROR", "Failed to publish draft post")
    IN  IF job_id = NoJobId
        THEN Finish(args, <<>>, createError(tool, "VALIDATION_ERROR", "job_id is required"),
                    FALSE)
        ELSE \E r1 \in PostResponses(job_id) :
             LET get == Request("GET", "/posts/{id}", job_id, r1)
             IN  IF r1 # "ok"
                 THEN Finish(args, <<get>>, Rethrown(r1), FALSE)
                 ELSE IF NotADraft(posts[job_id])
                 THEN Finish(args, <<get>>,
                             createError(tool, "VALIDATION_ERROR", "Post is not a draft"),
                             FALSE)
                 ELSE \E r2 \in {"ok"} \cup Failures :
                      LET publish == Request("POST", "/posts/{id}/publish", job_id, r2)
                          publishedPost == Upstream(posts, <<publish>>, "content", FALSE)[job_id]
                      IN  IF r2 # "ok"
                          THEN Finish(args, <<get, publish>>, Rethrown(r2), FALSE)
                          ELSE Finish(args, <<get, publish>>,
                                      Success(tool,
                                              [job_id |-> job_id,
                                               status |-> publishedPost.status,
                                               draft |-> publishedPost.draft,
                                               message |-> "Draft post published successfully"]),
                                      FALSE)

\* The records post.publish_draft is run on: drafts and posts that are not,
\* with the draft flag present or left out.
DraftPosts ==
    LET Core == [content : {<<"a">>}, status : {"draft", "pending", "processed"}]
    IN  Core \cup {c @@ ("draft" :> d) : c \in Core, d \in BOOLEAN}

InitDraft ==
    /\ posts \in [JobIds -> DraftPosts]
    /\ call = NoCall
    /\ requests = <<>>
    /\ result = NoResult

NextDraft == \E job_id \in JobInputs : PostPublishDraft(job_id)

SpecDraft == InitDraft /\ [][NextDraft]_vars

----------------------------------------------------------------------------
(* profiles.list and auth.status as tools of the server.                   *)

\* profiles.list: the targets of every group whose fetch succeeded; only the
\* failure of the group list itself fails the call, with API_ERROR.
ProfilesList ==
    \E listing \in Listings :
        /\ call' = Call("profiles.list", [none |-> TRUE])
        /\ requests' = listing.requests
        /\ result' = IF listing.ok
                     THEN Success("profiles.list", [targets |-> listing.targets])
                     ELSE createError("profiles.list", "API_ERROR",
                                      "Failed to retrieve profiles")
        /\ UNCHANGED posts

\* auth.status: with a key configured, the count of profile groups is added
\* when the group list can be fetched and left out, without failing, when it
\* cannot.
AuthStatus ==
    \E resp \in {"ok"} \cup Failures :
        /\ call' = Call("auth.status", [none |-> TRUE])
        /\ requests' = <<Request("GET", "/profile_groups/", NoJobId, resp)>>
        /\ result' = Success("auth.status",
                             IF resp = "ok"
                             THEN [authenticated |-> TRUE,
                                   profile_groups_count |-> Len(ProfileGroups)]
                             ELSE [authenticated |-> TRUE])
        /\ UNCHANGED posts

\* The tools that read the account, next to post.publish_draft, on a server
\* whose upstream holds drafts and other posts.
NextAccount ==
    \/ ProfilesList
    \/ AuthStatus
    \/ \E job_id \in JobInputs : PostPublishDraft(job_id)

SpecAccount == InitDraft /\ [][NextAccount]_vars

----------------------------------------------------------------------------
(* Concurrent invocations: handlers interleave at their awaits. One client *)
(* is constructed at startup from the ambient API key and shared; each     *)
(* handler keeps its arguments and what it fetched in its own locals.      *)
(* Here call holds the client and the invocations, requests is the log of  *)
(* all requests in the order issued, result holds one result per           *)
(* invocation.                                                             *)

MaxInvocations == 2

Invocations == 1..MaxInvocations

\* The values POSTPROXY_API_KEY can have when the server starts.
ApiKeys == {"key-a", "key-b"}

ConcurrentTools == {"post.status", "post.publish_draft"}

Idle == [tool |-> "none", job_id |-> NoJobId, pc |-> "idle"]

\* Arguments kept in one place for all invocations: those of the invocation
\* that began last.
ArgsOf_Shared(i) ==
    LET begun == {j \in Invocations : call.inv[j].pc # "idle"}
    IN  IF requests = <<>> THEN call.inv[i]
        ELSE call.inv[CHOOSE j \in begun :
                         \A k \in begun : call.inv[k].seq <= call.inv[j].seq]

\* The arguments of invocation i: the handler's own parameter.
ArgsOf(i) == call.inv[i]

\* Authorization: `Bearer ${this.apiKey}`, and the invocation that issued it.
Sent(i, request) ==
    request @@ [by |-> i, authorization |-> <<"Bearer", call.client.apiKey>>]

\* The server dispatches a tool call: the handler runs up to its first await.
Begin(i, tool, job_id) ==
    /\ call.inv[i].pc = "idle"
    /\ call' = [call EXCEPT !.inv[i] =
                  [tool |-> tool, job_id |-> job_id,
                   pc |-> IF job_id = NoJobId THEN "done" ELSE "get",
                   seq |-> Cardinality({j \in Invocations : call.inv[j].pc # "idle"}) + 1]]
    /\ result' = IF job_id = NoJobId
                 THEN [result EXCEPT ![i] =
                         createError(tool, "VALIDATION_ERROR", "job_id is required")]
                 ELSE result
    /\ UNCHANGED <<posts, requests>>

\* await client.getPost(args.job_id) returns: post.status reconciles and
\* ends, post.publish_draft checks the draft and goes on or ends.
GetPost(i) ==
    /\ call.inv[i].pc = "get"
    /\ \E resp \in PostResponses(ArgsOf(i).job_id) :
         LET tool == call.inv[i].tool
             job_id == ArgsOf(i).job_id
             goesOn == tool = "post.publish_draft" /\ resp = "ok" /\ ~NotADraft(posts[job_id])
         IN  /\ requests' = Append(requests,
                                   Sent(i, Request("GET", "/posts/{id}", job_id, resp)))
             /\ call' = [call EXCEPT !.inv[i].pc = IF goesOn THEN "publish" ELSE "done"]
             /\ result' =
                  IF goesOn THEN result
                  ELSE [result EXCEPT ![i] =
                          IF tool = "post.status"
                          THEN [handlePostStatus_Part003(job_id, resp) EXCEPT !.tool = tool]
                          ELSE IF resp = "ok"
                          THEN createError(tool, "VALIDATION_ERROR", "Post is not a draft")
                          ELSE IF RequestErrorCode(resp) = "VALIDATION_ERROR"
                          THEN createError(tool, "VALIDATION_ERROR", resp)
                          ELSE createError(tool, "API_ERROR", "Failed to publish draft post")]
             /\ UNCHANGED posts

\* await client.publishPost(args.job_id) returns.
PublishPost(i) ==
    /\ call.inv[i].pc = "publish"
    /\ \E resp \in PostResponses(ArgsOf(i).job_id) :
         LET tool == call.inv[i].tool
             job_id == ArgsOf(i).job_id
             publish == Request("POST", "/posts/{id}/publish", job_id, resp)
         IN  /\ requests' = Append(requests, Sent(i, publish))
             /\ posts' = Upstream(posts, <<publish>>, "content", FALSE)
             /\ call' = [call EXCEPT !.inv[i].pc = "done"]
             /\ result' =
                  [result EXCEPT ![i] =
                     IF resp = "ok"
                     THEN Success(tool, [job_id |-> job_id,
                                         status |-> posts'[job_id].status,
                                         draft |-> posts'[job_id].draft,
                                         message |-> "Draft post published successfully"])
                     ELSE IF RequestErrorCode(resp) = "VALIDATION_ERROR"
                     THEN createError(tool, "VALIDATION_ERROR", resp)
                     ELSE createError(tool, "API_ERROR", "Failed to publish draft post")]

InitConcurrent ==
    /\ posts \in [JobIds -> DraftPosts]
    /\ \E k \in ApiKeys :
          call = [client |-> [apiKey |-> k], inv |-> [i \in Invocations |-> Idle]]
    /\ requests = <<>>
    /\ result = [i \in Invocations |-> NoResult]

NextConcurrent ==
    \/ \E i \in Invocations, tool \in ConcurrentTools, job_id \in JobInputs :
          Begin(i, tool, job_id)
    \/ \E i \in Invocations : GetPost(i)
    \/ \E i \in Invocations : PublishPost(i)

SpecConcurrent == InitConcurrent /\ [][NextConcurrent]_vars

\* The arguments of post.publish of unnamed/part_003: those of the older
\* handler under "profiles", and the draft flag.
Part003Args ==
    PublishArgs("profiles") \cup
    WithField({a \in PublishArgs("profiles") : DOMAIN a = {"content", "profiles"}},
              "draft", DraftInputs)

NextPublish ==
    \/ \E args \in PublishArgs("targets") : PostPublish_PostTs(args)
    \/ \E args \in Part003Args : PostPublish_Part003(args)

SpecPublish == InitEmpty /\ [][NextPublish]_vars

\* The calls of post.publish that set require_confirmation, either way, or
\* leave it out, on one resolvable and one unresolvable target.
ConfirmArgs(listField) ==
    LET required == {("content" :> c) @@ (listField :> l) :
                        c \in ContentInputs,
                        l \in UNION {[1..n -> {"p1", "nope"}] : n \in 0..MaxTargets}}
    IN  WithOptional(WithOptional(required, "schedule", ScheduleInputs),
                     "require_confirmation", BOOLEAN)

NextConfirm ==
    \/ \E args \in ConfirmArgs("targets") : PostPublish_PostTs(args)
    \/ \E args \in ConfirmArgs("profiles") : PostPublish_Part003(args)

SpecConfirm == InitEmpty /\ [][NextConfirm]_vars

\* The calls of post.publish of unnamed/part_003 that put each validated
\* argument right and wrong: content, profiles, schedule, media, platforms.
MediaInputs == {<<"https://example.com/a.jpg">>, <<"/tmp/a.jpg", "not a url">>}

PlatformsInputs ==
    {[instagram |-> [format |-> "reel"]],
     [instagram |-> [format |-> "carousel"]],
     [facebook |-> [format |-> "story"], twitter |-> [format |-> "post"]],
     [facebook |-> [first_like |-> "x"]],
     [myspace |-> [format |-> "post"]]}

ValidateArgs ==
    LET required == [content : ContentInputs, profiles : {<<>>, <<"p1">>}]
    IN  WithOptional(WithOptional(WithOptional(required, "schedule", ScheduleInputs),
                                  "media", MediaInputs),
                     "platforms", PlatformsInputs)

NextValidate == \E args \in ValidateArgs : PostPublish_Part003(args)

SpecValidate == InitEmpty /\ [][NextValidate]_vars

\* post.publish of unnamed/part_003 alone.
NextPart003 == \E args \in Part003Args : PostPublish_Part003(args)

SpecPart003 == InitEmpty /\ [][NextPart003]_vars

----------------------------------------------------------------------------
(* post.retry.                                                             *)

\* The platforms filters a caller passes.
FilterLists == {<<>>, <<"twitter">>, <<"linkedin">>}

RetryArgs == WithOptional([job_id : JobInputs], "platforms", FilterLists)

InList(list, x) == \E i \in 1..Len(list) : list[i] = x

\* A selection that ignores the platforms filter.
failedPlatforms_Unfiltered(statusData, args) ==
    SelectSeq(statusData.platforms, LAMBDA p : p.status = "failed")

\* The failed outcomes of the status data, filtered to the requested
\* platforms when the filter is given and not empty.
failedPlatforms(statusData, args) ==
    LET failed == SelectSeq(statusData.platforms, LAMBDA p : p.status = "failed")
    IN  IF Has(args, "platforms") /\ Len(args.platforms) > 0
        THEN SelectSeq(failed, LAMBDA p : InList(args.platforms, p.platform))
        ELSE failed

\* A retry that goes on with an empty selection.
NothingToRetry_Never(failed) == FALSE

\* The guard that ends a retry with nothing to retry.
NothingToRetry(failed) == Len(failed) = 0

\* platformToProfilesMap.get(platformName) || []
ProfileIdsOf(targets, platformName) ==
    LET mine == SelectSeq(targets, LAMBDA t : t.platform = platformName)
    IN  [i \in 1..Len(mine) |-> mine[i].id]

\* The profile ids of the failed platforms, platform by platform.
RECURSIVE targetsToRetry(_, _)
targetsToRetry(targets, failedPlatformNames) ==
    IF failedPlatformNames = <<>> THEN <<>>
    ELSE ProfileIdsOf(targets, Head(failedPlatformNames))
            \o targetsToRetry(targets, Tail(failedPlatformNames))

\* A retry that goes on with no profile to post to.
NoProfilesFound_Never(targets) == FALSE

\* The guard that ends a retry when no failed platform has a profile.
NoProfilesFound(targets) == Len(targets) = 0

\* A retry that sends the create-post request once more when it failed.
RetryWrites_Again(job_id, create) ==
    IF create.resp # "ok" THEN <<create, create>> ELSE <<create>>

\* A retry that deletes the original once the new post is requested.
RetryWrites_DeleteOriginal(job_id, create) ==
    <<create, Request("DELETE", "/posts/{id}", job_id, "ok")>>

\* The state-changing requests of a retry: the creation of the new post.
RetryWrites(job_id, create) == <<create>>

handlePostRetry(args) ==
    LET tool == "post.retry"
        job_id == args.job_id
    IN
    IF job_id = NoJobId
    THEN Finish(args, <<>>, createError(tool, "VALIDATION_ERROR", "job_id is required"), FALSE)
    ELSE \E r1 \in PostResponses(job_id) :
         LET status == handlePostStatus_PostTs(job_id, r1)
             get1 == StatusRequests(job_id, r1)
         IN
         IF ~status.ok
         THEN Finish(args, get1, createError(tool, status.code, status.message), FALSE)
         ELSE
         LET failed == failedPlatforms(status.data, args) IN
         IF NothingToRetry(failed)
         THEN Finish(args, get1, createError(tool, "VALIDATION_ERROR",
                                       "No failed platforms to retry"), FALSE)
         ELSE \E r2 \in PostResponses(job_id) :
         LET get2 == Append(get1, Request("GET", "/posts/{id}", job_id, r2)) IN
         IF r2 # "ok"
         THEN Finish(args, get2, createError(tool, RequestErrorCode(r2), r2), FALSE)
         ELSE \E listing \in Listings :
         LET postDetails == posts[job_id]
             reads == get2 \o listing.requests
             failedPlatformNames == [i \in 1..Len(failed) |-> failed[i].platform]
             targets == targetsToRetry(listing.targets, failedPlatformNames)
             platformNames == [i \in 1..Len(targets) |->
                                  TargetOf(listing.targets, targets[i]).platform]
             schedule == IF Has(postDetails, "scheduled_at")
                         THEN postDetails.scheduled_at ELSE ""
         IN
         IF ~listing.ok
         THEN Finish(args, reads, createError(tool, "API_ERROR", "Failed to retrieve profiles"),
                     FALSE)
         ELSE IF NoProfilesFound(targets)
         THEN Finish(args, reads, createError(tool, "VALIDATION_ERROR",
                                        "No profiles found for failed platforms"), FALSE)
         ELSE IF ~Has(postDetails, "content")
         THEN \* content.trim() on undefined: a TypeError, which carries no code
              Finish(args, reads, createError(tool, "PUBLISH_FAILED", "Failed to retry post"),
                     FALSE)
         ELSE \E resp \in CreateResponses(platformNames) :
              LET create == createPost(postDetails.content, platformNames, schedule,
                                       generateIdempotencyKey(postDetails.content,
                                                              targets, schedule),
                                       Undefined, resp)
                  reqs == reads \o RetryWrites(job_id, create)
              IN  IF resp = "ok"
                  THEN Finish(args, reqs,
                              Success(tool, [job_id |-> create.job,
                                             retried_platforms |-> failedPlatformNames,
                                             original_job_id |-> job_id]),
                              FALSE)
                  ELSE Finish(args, reqs, createError(tool, RequestErrorCode(resp), resp), FALSE)

\* post.retry, while the upstream has a job id left to give.
PostRetry(args) ==
    /\ FreeJobIds # {}
    /\ handlePostRetry(args)

\* The upstream processes a post: every outcome ends published or failed.
UpstreamDeliver(j) ==
    /\ j \in DOMAIN posts
    /\ posts[j].status \in {"pending", "scheduled"}
    /\ \E statuses \in [1..Len(posts[j].platforms) -> {"published", "failed"}] :
          posts' = [posts EXCEPT ![j] =
                      [@ EXCEPT !.status = "processed",
                                !.platforms = [i \in 1..Len(@) |->
                                                 [@[i] EXCEPT !.status = statuses[i]]]]]
    /\ UNCHANGED <<call, requests, result>>

\* The records post.retry is run on: processed posts with any outcomes, in
\* either row shape, with the text in either field.
RetryPosts ==
    {(shape[1] :> <<"a">>) @@
     [status |-> "processed", draft |-> FALSE, scheduled_at |-> shape[2],
      key |-> CallerKey("k0"), platforms |-> l] :
        shape \in {<<"content", "">>, <<"content", ValidSchedule>>, <<"body", "">>},
        l \in OutcomeLists}

InitRetry ==
    /\ posts \in {(1 :> p) : p \in RetryPosts}
    /\ call = NoCall
    /\ requests = <<>>
    /\ result = NoResult

NextRetry == \E args \in RetryArgs : PostRetry(args)

SpecRetry == InitRetry /\ [][NextRetry]_vars

\* A post is published with a derived key, processed upstream and retried as
\* a whole.
ChainPublishArgs ==
    {a \in PublishArgs("targets") :
        ~Has(a, "idempotency_key") /\ ~Has(a, "require_confirmation")}

ChainRetryArgs == [job_id : JobIds]

Next ==
    \/ \E args \in ChainPublishArgs : PostPublish_PostTs(args)
    \/ \E j \in JobIds : UpstreamDeliver(j)
    \/ \E args \in ChainRetryArgs : PostRetry(args)

Spec == InitEmpty /\ [][Next]_vars

----------------------------------------------------------------------------
(* Properties of the status reconciliation (checked under SpecStatus).     *)

\* The record a successful post.status reported on.
StatusSubject == posts[result.data.job_id]

IsPostStatus == result.ok /\ result.tool \in {"post.status:part_003", "post.status:post.ts"}

IsHistory == result.ok /\ result.tool = "history.list"

\* C1: post.status (unnamed/part_003) reports, for every upstream record, the
\* first matching row of the decision table read top to bottom: draft status or
\* draft flag -> draft; scheduled -> pending; processing -> processing;
\* processed with no platforms -> pending; processed with a platform pending or
\* processing -> processing; processed with all published -> complete;
\* processed with all failed -> failed; processed with some published, some
\* failed and none pending -> complete; pending -> pending; anything else ->
\* pending.
C1_DecisionTable ==
    LET post == StatusSubject
        st == Get(post, "status")
        rows == IF Has(post, "platforms") THEN post.platforms ELSE <<>>
        count(s) == Cardinality({i \in 1..Len(rows) : rows[i].status = s})
        table ==
            IF st = "draft" \/ (Has(post, "draft") /\ post.draft) THEN "draft"
            ELSE IF st = "scheduled" THEN "pending"
            ELSE IF st = "processing" THEN "processing"
            ELSE IF st = "processed" /\ Len(rows) = 0 THEN "pending"
            ELSE IF st = "processed" /\ count("pending") + count("processing") > 0
            THEN "processing"
            ELSE IF st = "processed" /\ count("published") = Len(rows) THEN "complete"
            ELSE IF st = "processed" /\ count("failed") = Len(rows) THEN "failed"
            ELSE IF st = "processed" /\ count("published") > 0 /\ count("failed") > 0
                    /\ count("published") + count("failed") = Len(rows)
            THEN "complete"
            ELSE IF st = "pending" THEN "pending"
            ELSE "pending"
    IN  (result.ok /\ result.tool = "post.status:part_003")
            => result.data.overall_status = table

\* C1 (amended): post.status (unnamed/part_003) reports, for every upstream
\* record, the first matching row of the decision table whose last processed
\* row covers every list without a pending or processing outcome that is
\* neither all published nor all failed (any mix of published, failed and
\* deleted): such a post is complete.
C1_AmendedTable ==
    LET post == StatusSubject
        st == Get(post, "status")
        rows == IF Has(post, "platforms") THEN post.platforms ELSE <<>>
        count(s) == Cardinality({i \in 1..Len(rows) : rows[i].status = s})
        table ==
            IF st = "draft" \/ (Has(post, "draft") /\ post.draft) THEN "draft"
            ELSE IF st = "scheduled" THEN "pending"
            ELSE IF st = "processing" THEN "processing"
            ELSE IF st = "processed" /\ Len(rows) = 0 THEN "pending"
            ELSE IF st = "processed" /\ count("pending") + count("processing") > 0
            THEN "processing"
            ELSE IF st = "processed" /\ count("published") = Len(rows) THEN "complete"
            ELSE IF st = "processed" /\ count("failed") = Len(rows) THEN "failed"
            ELSE IF st = "processed" THEN "complete"
            ELSE "pending"
    IN  (result.ok /\ result.tool = "post.status:part_003")
            => result.data.overall_status = table

\* A processed post with a deleted outcome and nothing pending has been
\* reported complete by post.status (unnamed/part_003).
C1_Witness ==
    /\ result.ok
    /\ result.tool = "post.status:part_003"
    /\ Get(StatusSubject, "status") = "processed"
    /\ ~(Has(StatusSubject, "draft") /\ StatusSubject.draft)
    /\ Has(StatusSubject, "platforms")
    /\ \E i \in 1..Len(StatusSubject.platforms) :
           StatusSubject.platforms[i].status = "deleted"
    /\ \A i \in 1..Len(StatusSubject.platforms) :
           StatusSubject.platforms[i].status \in {"published", "deleted"}
    /\ result.data.overall_status = "complete"

\* C2: a processed, non-draft post whose outcomes are a mix of published and
\* failed, none pending or processing, is reported complete by post.status and
\* by history.list.
C2_MixedIsComplete ==
    LET mixed(post) ==
            /\ Get(post, "status") = "processed"
            /\ ~(Has(post, "draft") /\ post.draft)
            /\ Has(post, "platforms")
            /\ \E i \in 1..Len(post.platforms) : post.platforms[i].status = "published"
            /\ \E i \in 1..Len(post.platforms) : post.platforms[i].status = "failed"
            /\ \A i \in 1..Len(post.platforms) :
                   post.platforms[i].status \in {"published", "failed"}
    IN  /\ (IsPostStatus /\ mixed(StatusSubject))
            => result.data.overall_status = "complete"
        /\ IsHistory =>
            \A i \in 1..Len(result.data.jobs) :
                mixed(posts[result.data.jobs[i].job_id])
                    => result.data.jobs[i].overall_status = "complete"

\* C3: a post whose status is "draft" or whose draft flag is true is reported
\* as draft by post.status and by history.list, whatever its platforms and its
\* other field hold.
C3_DraftIsDraft ==
    LET isDraft(post) ==
            Get(post, "status") = "draft" \/ (Has(post, "draft") /\ post.draft)
    IN  /\ (IsPostStatus /\ isDraft(StatusSubject))
            => result.data.overall_status = "draft"
        /\ IsHistory =>
            \A i \in 1..Len(result.data.jobs) :
                isDraft(posts[result.data.jobs[i].job_id])
                    => result.data.jobs[i].overall_status = "draft"

\* C4: the overall_status of post.status (unnamed/part_003) and of history.list
\* is always one of draft, pending, processing, complete, failed, and a record
\* whose status is unrecognized or missing is reported pending.
C4_ClosedVocabulary ==
    LET Vocabulary == {"draft", "pending", "processing", "complete", "failed"}
        unrecognized(post) ==
            /\ Get(post, "status") \notin
                   {"draft", "pending", "processing", "processed", "scheduled"}
            /\ ~(Has(post, "draft") /\ post.draft)
    IN  /\ (result.ok /\ result.tool = "post.status:part_003") =>
            /\ result.data.overall_status \in Vocabulary
            /\ unrecognized(StatusSubject) => result.data.overall_status = "pending"
        /\ IsHistory =>
            \A i \in 1..Len(result.data.jobs) :
                /\ result.data.jobs[i].overall_status \in Vocabulary
                /\ unrecognized(posts[result.data.jobs[i].job_id])
                       => result.data.jobs[i].overall_status = "pending"

----------------------------------------------------------------------------
(* Properties of post.publish (checked under SpecPublish).                 *)

IsPublish == call.tool \in {"post.publish:post.ts", "post.publish:part_003"}

\* The caller's target list, under either name.
CallTargets == IF Has(call.args, "targets") THEN call.args.targets ELSE call.args.profiles

\* The call got as far as resolving its targets: its arguments are valid, it
\* is not a confirmation preview, and the profile list, if fetched, arrived.
ReachedResolution ==
    /\ IsPublish
    /\ Len(call.args.content) >= 1
    /\ Len(CallTargets) >= 1
    /\ Has(call.args, "schedule") => IsISO8601(call.args.schedule)
    /\ ~Has(call.args, "require_confirmation")
    /\ (requests # <<>> /\ requests[1].method = "GET") => requests[1].resp = "ok"
    /\ requests = <<>> => call.tool = "post.publish:part_003"

\* The create-post requests of the latest invocation.
CreatePosts ==
    {i \in 1..Len(requests) : requests[i].method = "POST" /\ requests[i].path = "/posts"}

\* A target the specification resolves: a profile id or a bare platform name.
Resolves(t) == t \in PlatformNames \/ \E pr \in AllProfiles : pr.id = t

\* C5: when a target of post.publish does not resolve, the call fails with
\* TARGET_NOT_FOUND and no POST /posts is issued in the invocation.
C5_UnresolvedTargetFails ==
    (ReachedResolution /\ \E i \in 1..Len(CallTargets) : ~Resolves(CallTargets[i]))
        => /\ ~result.ok
           /\ result.code = "TARGET_NOT_FOUND"
           /\ CreatePosts = {}

\* C6: targets of post.publish that are bare platform names are sent unchanged
\* as the profiles of the create-post request, and the call does not fail with
\* TARGET_NOT_FOUND for them.
C6_PlatformNamePassesThrough ==
    (ReachedResolution /\ \A i \in 1..Len(CallTargets) : CallTargets[i] \in PlatformNames)
        => /\ result.code # "TARGET_NOT_FOUND"
           /\ \E i \in CreatePosts : requests[i].profiles = CallTargets

----------------------------------------------------------------------------
(* Properties of post.retry (checked under SpecRetry and Spec).            *)

IsRetry == call.tool = "post.retry"

\* The retry fetched the status of a job the upstream holds.
RetryFetched ==
    /\ IsRetry
    /\ call.args.job_id \in DOMAIN posts
    /\ requests # <<>>
    /\ requests[1].resp = "ok"

RetryOriginal == posts[call.args.job_id]

\* The platform an outcome row names, in either row shape.
RowName(row) == IF Has(row, "platform") THEN row.platform ELSE Get(row, "network")

OriginalRows == IF Has(RetryOriginal, "platforms") THEN RetryOriginal.platforms ELSE <<>>

\* The failed outcomes of the original, within the filter when narrow holds.
FailedWithin(narrow) ==
    {i \in 1..Len(OriginalRows) :
        /\ OriginalRows[i].status = "failed"
        /\ narrow => InList(call.args.platforms, RowName(OriginalRows[i]))}

FilterProvided == Has(call.args, "platforms")

FilterNotEmpty == Has(call.args, "platforms") /\ Len(call.args.platforms) > 0

C8_OnlyFailedRetried ==
    IsRetry =>
        \A i \in CreatePosts : \A k \in 1..Len(requests[i].profiles) :
            \E f \in FailedWithin(FilterProvided) :
                RowName(OriginalRows[f]) = requests[i].profiles[k]

\* C8 (amended): every platform in the create-post request of a retry is a
\* failed outcome of the original job, and is in the platforms filter when a
\* non-empty one is provided; an empty filter selects every failed outcome.
C8_OnlyFailedWithinFilter ==
    IsRetry =>
        \A i \in CreatePosts : \A k \in 1..Len(requests[i].profiles) :
            \E f \in FailedWithin(FilterNotEmpty) :
                RowName(OriginalRows[f]) = requests[i].profiles[k]

\* A retry filtered to twitter, of a job on which twitter and linkedin both
\* failed, has re-posted to twitter.
C8_Witness ==
    /\ RetryFetched
    /\ result.ok
    /\ FilterNotEmpty
    /\ Cardinality(FailedWithin(FALSE)) = 2
    /\ Cardinality(FailedWithin(TRUE)) = 1
    /\ CreatePosts # {}
    /\ \A i \in CreatePosts : requests[i].profiles # <<>>

\* C9: a successful retry, every request of which the upstream answered, sends
\* an Idempotency-Key different from the key post.publish derived for the
\* original post.
C9_RetryKeyDiffers ==
    (/\ RetryFetched
     /\ result.ok
     /\ RetryOriginal.key.kind = "sha256"
     /\ \A i \in 1..Len(requests) : requests[i].resp = "ok")
        => \A i \in CreatePosts : requests[i].key # RetryOriginal.key

\* C10: a retry issues only reads and a POST /posts, and every record the
\* upstream held before the retry is held unchanged after it, whether the
\* retry succeeds or fails.
C10_RetryLeavesOriginal ==
    [][call'.tool = "post.retry" =>
            /\ \A i \in 1..Len(requests') :
                  \/ requests'[i].method = "GET"
                  \/ requests'[i].method = "POST" /\ requests'[i].path = "/posts"
            /\ \A j \in DOMAIN posts : j \in DOMAIN posts' /\ posts'[j] = posts[j]]_vars

\* A retry has created a new job next to the original.
C10_Witness ==
    /\ RetryFetched
    /\ result.ok
    /\ CreatePosts # {}
    /\ result.data.job_id \in DOMAIN posts
    /\ result.data.job_id # call.args.job_id
    /\ \E i \in 1..Len(OriginalRows) : OriginalRows[i].status = "failed"

\* The profile list a retry fetched: the profiles of the groups whose fetch
\* the upstream answered.
FetchedProfiles ==
    UNION {{ProfileGroups[g].profiles[k] : k \in 1..Len(ProfileGroups[g].profiles)} :
              g \in {h \in 1..Len(ProfileGroups) :
                        \E i \in 1..Len(requests) :
                            /\ requests[i].path = "/profiles?group_id"
                            /\ requests[i].group = ProfileGroups[h].id
                            /\ requests[i].resp = "ok"}}

\* The retry read the job twice and listed the profile groups.
RetryListed ==
    /\ RetryFetched
    /\ \E i \in 1..Len(requests) :
          requests[i].path = "/profile_groups/" /\ requests[i].resp = "ok"

\* No failed platform the retry selected has a profile in the fetched list.
NoneResolve ==
    /\ FailedWithin(FilterNotEmpty) # {}
    /\ \A f \in FailedWithin(FilterNotEmpty) :
          \A pr \in FetchedProfiles : pr.network # RowName(OriginalRows[f])

MaxContentLen == 2

KeyChars == {"a", " "}

KeyContents == UNION {[1..n -> KeyChars] : n \in 0..MaxContentLen}

KeyTargets == UNION {[1..n -> {"p1", "p2"}] : n \in 0..MaxTargets}

\* schedule?: string, absent, empty or a date
KeySchedules == {Undefined, "", ValidSchedule}

KeyInputs == [content : KeyContents, targets : KeyTargets, schedule : KeySchedules]

\* Two calls of generateIdempotencyKey, one after the other.
DeriveKeys ==
    /\ call.tool = "deriveKey"
    /\ result = NoResult
    /\ result' = Success("deriveKey",
                    [first  |-> generateIdempotencyKey(call.args.first.content,
                                    call.args.first.targets, call.args.first.schedule),
                     second |-> generateIdempotencyKey(call.args.second.content,
                                    call.args.second.targets, call.args.second.schedule)])
    /\ UNCHANGED <<posts, call, requests>>

InitKey ==
    /\ posts = <<>>
    /\ requests = <<>>
    /\ result = NoResult
    /\ \E a \in KeyInputs, b \in KeyInputs :
          call = Call("deriveKey", [first |-> a, second |-> b])

NextKey == DeriveKeys

SpecKey == InitKey /\ [][NextKey]_vars

\* ---------------------------------------------------------------------------
\* Claims about generateIdempotencyKey.

KeysDerived == result.tool = "deriveKey" /\ result.ok

\* The content between its first and its last character that is not a space.
Stripped(c) ==
    LET inside == {i \in 1..Len(c) : c[i] # " "}
    IN  IF inside = {} THEN <<>>
        ELSE SubSeq(c, CHOOSE i \in inside : \A j \in inside : i <= j,
                       CHOOSE i \in inside : \A j \in inside : j <= i)

Occurrences(list, t) == Cardinality({i \in 1..Len(list) : list[i] = t})

IsPermutation(a, b) ==
    /\ Len(a) = Len(b)
    /\ \A i \in 1..Len(a) : Occurrences(a, a[i]) = Occurrences(b, a[i])

TargetSet(list) == {list[i] : i \in 1..Len(list)}

AbsentAsEmpty(schedule) == IF schedule = Undefined THEN "" ELSE schedule

\* C12: two generateIdempotencyKey calls whose targets are permutations of
\* each other, whose contents are equal once leading and trailing whitespace
\* is removed and whose schedules are equal with an absent schedule read as
\* the empty string return the same key.
C12_SameKey ==
    (/\ KeysDerived
     /\ IsPermutation(call.args.first.targets, call.args.second.targets)
     /\ Stripped(call.args.first.content) = Stripped(call.args.second.content)
     /\ AbsentAsEmpty(call.args.first.schedule) = AbsentAsEmpty(call.args.second.schedule))
        => result.data.first = result.data.second

\* Two calls that differ in the order of two distinct targets, in the
\* whitespace around the content and in absent against empty schedule have
\* returned one key.
C12_Witness ==
    /\ KeysDerived
    /\ call.args.first.targets = <<"p1", "p2">>
    /\ call.args.second.targets = <<"p2", "p1">>
    /\ call.args.first.content = <<" ", "a">>
    /\ call.args.second.content = <<"a", " ">>
    /\ call.args.first.schedule = Undefined
    /\ call.args.second.schedule = ""
    /\ result.data.first = result.data.second

\* C13: with the digest injective, two generateIdempotencyKey calls that
\* differ in content, in target set or in schedule return different keys.
C13_DifferentKey ==
    (/\ KeysDerived
     /\ \/ call.args.first.content # call.args.second.content
        \/ TargetSet(call.args.first.targets) # TargetSet(call.args.second.targets)
        \/ call.args.first.schedule # call.args.second.schedule)
        => result.data.first # result.data.second

\* C13 (amended): with the digest injective, two generateIdempotencyKey calls
\* that differ in content once leading and trailing whitespace is removed, in
\* target set, or in schedule with an absent schedule read as the empty
\* string, return different keys.
C13_DifferentNormalisedKey ==
    (/\ KeysDerived
     /\ \/ Stripped(call.args.first.content) # Stripped(call.args.second.content)
        \/ TargetSet(call.args.first.targets) # TargetSet(call.args.second.targets)
        \/ AbsentAsEmpty(call.args.first.schedule)
              # AbsentAsEmpty(call.args.second.schedule))
        => result.data.first # result.data.second

\* Two calls that differ in the schedule alone have returned different keys.
C13_Witness ==
    /\ KeysDerived
    /\ call.args.first.content = call.args.second.content
    /\ call.args.first.targets = call.args.second.targets
    /\ call.args.first.schedule = ""
    /\ call.args.second.schedule = ValidSchedule
    /\ result.data.first # result.data.second

\* ---------------------------------------------------------------------------
\* Claims about the create-post request of post.publish.

KnownProfileId(t) == \E pr \in AllProfiles : pr.id = t

NetworkOfId(t) == (CHOOSE pr \in AllProfiles : pr.id = t).network

\* The Idempotency-Key the caller's arguments call for: the supplied key, or
\* the key derived from the content, the targets as given and the schedule.
ExpectedKey ==
    IF Has(call.args, "idempotency_key") THEN CallerKey(call.args.idempotency_key)
    ELSE generateIdempotencyKey(call.args.content, CallTargets,
                                IF Has(call.args, "schedule") THEN call.args.schedule
                                ELSE Undefined)

\* C14: when every target of post.publish is a known profile id, the
\* create-post request carries as profiles the targets replaced one by one,
\* in order, by their profiles' platform names, media [] when no media is
\* given, and as Idempotency-Key the caller's idempotency_key when given,
\* otherwise the key derived from the content, the caller's own targets and
\* the schedule.
C14_CreateRequest ==
    (IsPublish /\ \A i \in 1..Len(CallTargets) : KnownProfileId(CallTargets[i]))
        => \A r \in CreatePosts :
              /\ requests[r].profiles =
                    [i \in 1..Len(CallTargets) |-> NetworkOfId(CallTargets[i])]
              /\ requests[r].media = <<>>
              /\ requests[r].key = ExpectedKey

\* ---------------------------------------------------------------------------
\* Claims about the draft warning of post.publish (unnamed/part_003).

\* post.publish of unnamed/part_003 sent a create-post request that the
\* upstream accepted.
PublishCreated ==
    /\ call.tool = "post.publish:part_003"
    /\ requests # <<>>
    /\ requests[1].method = "POST" /\ requests[1].path = "/posts"
    /\ requests[1].resp = "ok"

\* The post the upstream made of the accepted request, as it answered it.
NewPost == posts[requests[1].job]

DraftRequested == Has(call.args, "draft") /\ call.args.draft

\* C15: the successful result of post.publish holds a warning exactly when a
\* draft was requested and the upstream's response has no draft true or has
\* status "processed"; the call then still succeeds and returns the job id,
\* and without a draft request there is no warning.
C15_WarningIff ==
    PublishCreated
        => /\ result.ok
           /\ result.data.job_id = requests[1].job
           /\ Has(result.data, "warning")
                 <=> (DraftRequested /\ (~NewPost.draft \/ NewPost.status = "processed"))

\* A draft was requested, the upstream answered draft true with status
\* "processed", and the call succeeded with the job id and a warning.
C15_Witness ==
    /\ PublishCreated
    /\ DraftRequested
    /\ NewPost.draft
    /\ NewPost.status = "processed"
    /\ result.ok
    /\ result.data.job_id = requests[1].job
    /\ Has(result.data, "warning")

\* C16: when a draft is requested and the upstream's response has draft
\* true, the result holds no warning.
C16_HonouredNoWarning ==
    (PublishCreated /\ DraftRequested /\ NewPost.draft)
        => ~Has(result.data, "warning")

\* C16 (amended): when a draft is requested and the upstream's response has
\* draft true and a status other than "processed", the result holds no
\* warning.
C16_HonouredUnprocessedNoWarning ==
    (PublishCreated /\ DraftRequested /\ NewPost.draft /\ NewPost.status # "processed")
        => ~Has(result.data, "warning")

\* A draft was requested, the upstream answered draft true with status
\* "draft", and the result holds no warning.
C16_Witness ==
    /\ PublishCreated
    /\ DraftRequested
    /\ NewPost.draft
    /\ NewPost.status = "draft"
    /\ result.ok
    /\ ~Has(result.data, "warning")

\* ---------------------------------------------------------------------------
\* Claims about post.publish_draft.

PublishRequests(reqs) ==
    {i \in 1..Len(reqs) : reqs[i].method = "POST" /\ reqs[i].path = "/posts/{id}/publish"}

\* The post is a draft: draft true or status "draft".
IsDraftPost(post) ==
    (Has(post, "draft") /\ post.draft) \/ (Has(post, "status") /\ post.status = "draft")

\* The invocation fetched the post of request i before it, and got it.
FetchedBefore(reqs, i) ==
    \E k \in 1..(i - 1) :
        /\ reqs[k].method = "GET" /\ reqs[k].path = "/posts/{id}"
        /\ reqs[k].job = reqs[i].job
        /\ reqs[k].resp = "ok"

\* C17: post.publish_draft issues POST /posts/{id}/publish only after it has
\* fetched the post and only if the fetched post is a draft (draft true or
\* status "draft"); on a post that is not a draft it fails with
\* VALIDATION_ERROR and issues no publish request.
C17_PublishOnlyDrafts ==
    [][call'.tool = "post.publish_draft"
          => /\ \A i \in PublishRequests(requests') :
                   /\ FetchedBefore(requests', i)
                   /\ requests'[i].job \in DOMAIN posts
                   /\ IsDraftPost(posts[requests'[i].job])
             /\ (/\ requests' # <<>>
                 /\ requests'[1].resp = "ok"
                 /\ ~IsDraftPost(posts[requests'[1].job]))
                   => /\ ~result'.ok
                      /\ result'.code = "VALIDATION_ERROR"
                      /\ PublishRequests(requests') = {}]_vars

\* post.publish_draft has fetched a draft, published it and succeeded.
C17_Witness ==
    /\ call.tool = "post.publish_draft"
    /\ Len(requests) = 2
    /\ requests[1].method = "GET" /\ requests[1].resp = "ok"
    /\ PublishRequests(requests) = {2}
    /\ requests[2].resp = "ok"
    /\ result.ok
    /\ ~posts[call.args.job_id].draft

\* ---------------------------------------------------------------------------
\* Claims about the confirmation preview and the validation of post.publish.

\* The arguments that post.publish accepts: content and targets not empty
\* and the schedule, if any, an ISO 8601 date.
ValidPublishInput ==
    /\ IsPublish
    /\ Len(call.args.content) >= 1
    /\ Len(CallTargets) >= 1
    /\ Has(call.args, "schedule") => IsISO8601(call.args.schedule)

\* C18: post.publish with require_confirmation true and otherwise valid
\* input returns a summary and issues no upstream request at all, so no
\* create-post request either.
C18_ConfirmationPublishesNothing ==
    (/\ ValidPublishInput
     /\ Has(call.args, "require_confirmation")
     /\ call.args.require_confirmation)
        => /\ result.ok
           /\ Has(result.data, "summary")
           /\ requests = <<>>
           /\ CreatePosts = {}

\* A valid post.publish with require_confirmation true has returned a summary
\* of its targets without a request.
C18_Witness ==
    /\ ValidPublishInput
    /\ Has(call.args, "require_confirmation")
    /\ call.args.require_confirmation
    /\ result.ok
    /\ Has(result.data, "summary")
    /\ result.data.summary.targets = CallTargets
    /\ requests = <<>>

\* The malformed sub-parameters among the arguments drawn: a media item that
\* is neither a URL nor a path, a platform the schema does not know, a
\* parameter its platform does not have, a value outside an enumeration.
MalformedMedia(media) == \E i \in 1..Len(media) : media[i] = "not a url"

MalformedPlatforms(platforms) ==
    \/ Has(platforms, "myspace")
    \/ Has(platforms, "twitter") /\ DOMAIN platforms.twitter # {}
    \/ Has(platforms, "facebook") /\ Has(platforms.facebook, "first_like")
    \/ Has(platforms, "instagram") /\ Get(platforms.instagram, "format") = "carousel"

InvalidPublishInput(args) ==
    \/ Len(args.content) = 0
    \/ Len(args.profiles) = 0
    \/ Has(args, "schedule") /\ args.schedule = "tomorrow"
    \/ Has(args, "media") /\ MalformedMedia(args.media)
    \/ Has(args, "platforms") /\ MalformedPlatforms(args.platforms)

UpstreamFailed == requests # <<>> /\ requests[Len(requests)].resp \in Failures

\* C20: when the upstream call of a tool invocation fails, the tool call
\* fails with the code the HTTP client assigns: AUTH_INVALID for 401,
\* TARGET_NOT_FOUND for 404, VALIDATION_ERROR for another 4xx, API_ERROR for
\* 5xx and transport failures.
C20_ClientCodeReported ==
    UpstreamFailed
        => /\ ~result.ok
           /\ result.code = RequestErrorCode(requests[Len(requests)].resp)

\* ---------------------------------------------------------------------------
\* Claims about timeouts and swallowed failures.

\* The failures other than a timeout.
OtherFailures == Failures \ {"timeout"}

\* A retry whose status fetch arrived and whose later request timed out: the
\* caller gets the code the HTTP client gave the timeout.
RetryTimedOut ==
    /\ RetryFetched
    /\ Len(requests) >= 2
    /\ requests[Len(requests)].resp = "timeout"

\* C21: an upstream call that exceeds its timeout is reported with a code of
\* its own, different from the code of every other HTTP or transport failure.
C21_TimeoutCodeDistinct ==
    RetryTimedOut
        => /\ ~result.ok
           /\ \A f \in OtherFailures : result.code # RequestErrorCode(f)

\* An upstream call of the invocation failed, other than the fetch of one
\* group's profiles.
SomeCallFailed ==
    \E i \in 1..Len(requests) :
        requests[i].resp \in Failures /\ requests[i].path # "/profiles?group_id"

\* C22: when an upstream call of a tool invocation fails, other than the
\* fetch of one group's profiles, the invocation returns a failure and never
\* a success.
C22_NoSwallowedFailure == SomeCallFailed => ~result.ok

\* ---------------------------------------------------------------------------
\* Claims about profiles.list.

\* profiles.list got the list of groups.
ListedGroups ==
    /\ call.tool = "profiles.list"
    /\ requests # <<>>
    /\ requests[1].path = "/profile_groups/"
    /\ requests[1].resp = "ok"

\* The profiles of the groups from the g-th on whose fetch the request log
\* shows answered, in group order.
RECURSIVE ProfilesOfFetched(_)
ProfilesOfFetched(g) ==
    IF g > Len(ProfileGroups) THEN <<>>
    ELSE (IF requests[g + 1].resp = "ok"
          THEN [k \in 1..Len(ProfileGroups[g].profiles) |->
                  [id |-> ProfileGroups[g].profiles[k].id,
                   platform |-> ProfileGroups[g].profiles[k].network]]
          ELSE <<>>)
         \o ProfilesOfFetched(g + 1)

RequestsBy(i) == {n \in 1..Len(requests) : requests[n].by = i}

\* The result the handler of invocation i gives on its own arguments and the
\* responses to its own requests alone.
OwnOutcome(i) ==
    LET inv == call.inv[i]
        mine == RequestsBy(i)
        first == CHOOSE n \in mine : \A k \in mine : n <= k
        last == CHOOSE n \in mine : \A k \in mine : k <= n
    IN  IF inv.job_id = NoJobId
        THEN /\ mine = {}
             /\ result[i].code = "VALIDATION_ERROR"
        ELSE /\ mine # {}
             /\ \A n \in mine : requests[n].job = inv.job_id
             /\ requests[first].method = "GET"
             /\ result[i].ok <=> requests[last].resp = "ok" /\
                                   (inv.tool = "post.publish_draft" => Cardinality(mine) = 2)
             /\ result[i].ok => result[i].data.job_id = inv.job_id
             /\ Cardinality(mine) = 2
                   => /\ inv.tool = "post.publish_draft"
                      /\ requests[first].resp = "ok"
                      /\ requests[last].path = "/posts/{id}/publish"

SameRequest(r, q) ==
    /\ r.method = q.method
    /\ r.path = q.path
    /\ r.job = q.job
    /\ r.group = q.group

\* C25: within one invocation no upstream request is issued again after it
\* failed or timed out, and post.publish and post.retry issue at most one
\* POST /posts each.
C25_NoRetryInside ==
    /\ \A i \in 1..Len(requests) :
          requests[i].resp \in Failures
              => \A j \in (i + 1)..Len(requests) : ~SameRequest(requests[i], requests[j])
    /\ (IsPublish \/ IsRetry) => Cardinality(CreatePosts) <= 1

\* A retry's create-post request has timed out and the invocation ended with
\* that one request, the last of its log.
C25_Witness ==
    /\ IsRetry
    /\ CreatePosts = {Len(requests)}
    /\ requests[Len(requests)].resp = "timeout"
    /\ ~result.ok

\* ---------------------------------------------------------------------------
\* Claims about the shape of the reconciled records.

SubjectRows == IF Has(StatusSubject, "platforms") THEN StatusSubject.platforms ELSE <<>>

\* C26: for every upstream platform outcome, in the legacy shape {network,
\* status, error_reason} or the current shape {platform, status, error},
\* post.status emits one entry whose platform is the upstream network or
\* platform value (and whose error is the upstream error or error_reason);
\* the emitted list has the length and the order of the upstream list. The
\* formula states the part on the platform value, the length and the order.
C26_EitherShapeAccepted ==
    IsPostStatus
        => /\ Len(result.data.platforms) = Len(SubjectRows)
           /\ \A i \in 1..Len(SubjectRows) :
                 /\ result.data.platforms[i].platform = RowName(SubjectRows[i])
                 /\ result.data.platforms[i].status = SubjectRows[i].status

\* The text of an upstream record: body when present, otherwise content.
TextOf(post) == IF Has(post, "body") THEN post.body ELSE Get(post, "content")

\* The retry listed the profiles and found one for a failed platform it
\* selected, so it has something to re-publish.
RetryHasTargets ==
    /\ RetryListed
    /\ \E f \in FailedWithin(FilterNotEmpty) :
          /\ Has(OriginalRows[f], "network")
          /\ \E pr \in FetchedProfiles : pr.network = OriginalRows[f].network

\* C27: where a post's text is read from an upstream record, it is taken from
\* body when present and otherwise from content; post.retry re-publishes a
\* record carrying only body as it does one carrying only content, with that
\* text as the content of the create-post request and of its key.
C27_BodyPreferred ==
    RetryHasTargets
        => /\ CreatePosts # {}
           /\ \A r \in CreatePosts :
                 /\ requests[r].content = TextOf(RetryOriginal)
                 /\ requests[r].key.content = Trim(TextOf(RetryOriginal))

----------------------------------------------------------------------------
(* Properties of history.list's length (checked under SpecHistory).        *)

\* The limit a history.list call asked for: the one given, 10 when none is.
AskedLimit == IF Has(call.args, "limit") THEN call.args.limit ELSE DefaultLimit

\* The upstream's posts in upstream order.
HeldJobs == ListedJobs(1, MaxJobs)

Min(a, b) == IF a < b THEN a ELSE b

\* The job ids of a history.list result, in the order listed.
ListedIds == [i \in 1..Len(result.data.jobs) |-> result.data.jobs[i].job_id]

\* C28: a successful history.list(n) against an upstream holding m posts
\* returns exactly min(n, m) job summaries, the first min(n, m) upstream posts
\* in upstream order, with n = 10 when no limit is given.
C28_ExactlyMinListed ==
    IsHistory
        => /\ Len(result.data.jobs) = Min(AskedLimit, Len(HeldJobs))
           /\ ListedIds = SubSeq(HeldJobs, 1, Min(AskedLimit, Len(HeldJobs)))

----------------------------------------------------------------------------
(* The two copies of the reconciliation (checked under SpecStatus).        *)

\* C29: post.status (unnamed/part_003) and history.list compute the same
\* overall_status for every upstream record: what either tool reports for a
\* record is what the other tool's reconciler computes for it.
C29_ReconcilersAgree ==
    /\ (result.ok /\ result.tool = "post.status:part_003")
           => result.data.overall_status = overallStatus_History(StatusSubject)
    /\ IsHistory
           => \A i \in 1..Len(result.data.jobs) :
                 result.data.jobs[i].overall_status
                     = overallStatus_Part003(posts[result.data.jobs[i].job_id])

----------------------------------------------------------------------------
(* What a retry reports as retried (checked under SpecRetry).              *)

PlatformsOf(list) == {list[i] : i \in 1..Len(list)}

\* A retry succeeded and reported the platforms it retried.
RetrySucceeded ==
    /\ IsRetry
    /\ result.ok
    /\ result.tool = "post.retry"
    /\ Has(result.data, "retried_platforms")

\* C30: on a successful post.retry the platforms of retried_platforms are
\* exactly the platforms sent as profiles in the new create-post request; a
\* failed platform with no profile id is not reported as retried.
C30_RetriedAreSent ==
    RetrySucceeded
        => /\ CreatePosts # {}
           /\ \A r \in CreatePosts :
                 PlatformsOf(result.data.retried_platforms) = PlatformsOf(requests[r].profiles)

====
